---- MODULE Spec2Model ----
(***************************************************************************)
(* CacheDictionary (dbms/include/DB/Dictionaries/CacheDictionary.h): a     *)
(* fixed-capacity, direct-mapped attribute cache in front of a dictionary  *)
(* source.  The module models the construction-time capacity computation,  *)
(* the typed getters, the scalar and string getItems read paths and the    *)
(* update (refresh) path, and states the properties checked against them.  *)
(***************************************************************************)
EXTENDS Integers, Sequences, FiniteSets, TLC

VARIABLES
    now,            \* std::chrono::system_clock::now(), in seconds
    dict_lifetime,  \* [min_sec, max_sec]
    source_data,    \* what the source behind source_ptr currently knows
    cells,          \* std::vector<cell_metadata_t>, indexed 0..size-1
    arrays,         \* attribute_t::arrays, one array of `size` slots per attribute
    heap,           \* char buffers obtained with new[] by setAttributeValue
    rw_lock,        \* Poco::RWLock
    rnd_engine,     \* std::mt19937_64
    hist,           \* history, per slot: when its cell was last written, the
                    \* key that write displaced and the values of the row
    pc,             \* "idle": no getter running; "returned": a getter has returned
    last,           \* arguments and outcome of the getter that returned last
    threads,        \* per thread: where it is inside a getter and its locals
    rup_pc,         \* position of the capacity computation
    rup_n,          \* argument of round_up_to_power_of_two
    rup_size        \* its result

vars == <<now, dict_lifetime, source_data, cells, arrays, heap, rw_lock,
          rnd_engine, hist, pc, last, threads, rup_pc, rup_n, rup_size>>

cacheVars == <<now, dict_lifetime, source_data, cells, arrays, heap, rw_lock,
               rnd_engine, hist, pc, last, threads>>

rupVars == <<rup_pc, rup_n, rup_size>>

(***************************************************************************)
(* std::size_t arithmetic.  A size_t is a vector of WordBits bits, bit 0   *)
(* the least significant, so that wrap-around is exact.                    *)
(***************************************************************************)
WordBits == 64

BitIdx == 0 .. WordBits - 1

WordZero == [i \in BitIdx |-> 0]

\* n - 1 modulo 2^WordBits: borrow through the trailing zeros
WordDec(n) ==
    [i \in BitIdx |-> IF \A j \in 0 .. i - 1 : n[j] = 0 THEN 1 - n[i] ELSE n[i]]

\* n + 1 modulo 2^WordBits: carry through the trailing ones
WordInc(n) ==
    [i \in BitIdx |-> IF \A j \in 0 .. i - 1 : n[j] = 1 THEN 1 - n[i] ELSE n[i]]

\* n >> s
WordShr(n, s) == [i \in BitIdx |-> IF i + s < WordBits THEN n[i + s] ELSE 0]

\* a | b
WordOr(a, b) == [i \in BitIdx |-> IF a[i] = 1 \/ b[i] = 1 THEN 1 ELSE 0]

\* a & b
WordAnd(a, b) == [i \in BitIdx |-> IF a[i] = 1 /\ b[i] = 1 THEN 1 ELSE 0]

\* a < b, unsigned
WordLess(a, b) ==
    \E i \in BitIdx : /\ a[i] = 0
                      /\ b[i] = 1
                      /\ \A j \in i + 1 .. WordBits - 1 : a[j] = b[j]

WordLeq(a, b) == a = b \/ WordLess(a, b)

\* the words of small naturals (below 2^30) and back
SmallBits == 30

ToWord(k) == [i \in BitIdx |-> IF i < SmallBits THEN (k \div (2 ^ i)) % 2 ELSE 0]

IsSmall(w) == \A i \in BitIdx : i >= SmallBits => w[i] = 0

RECURSIVE ToNatFrom(_, _)
ToNatFrom(w, i) == IF i >= SmallBits THEN 0 ELSE w[i] * (2 ^ i) + ToNatFrom(w, i + 1)

ToNat(w) == ToNatFrom(w, 0)

\* n |= n >> s
OrShr(n, s) == WordOr(n, WordShr(n, s))

round_up_to_power_of_two(n) ==
    WordInc(OrShr(OrShr(OrShr(OrShr(OrShr(OrShr(WordDec(n), 1), 2), 4), 8), 16), 32))

(***************************************************************************)
(* Configuration the dictionary is constructed with.                       *)
(***************************************************************************)
AttributeType ==
    {"uint8", "uint16", "uint32", "uint64", "int8", "int16", "int32", "int64",
     "float32", "float64", "string"}

\* the size the dictionary is constructed with
RequestedSize == 4

\* byte strings are tuples of characters
StrEmpty == << >>
StrA == <<"a">>
StrB == <<"b">>
StrNull == <<"n">>
StrPrior == <<"p">>

\* dict_struct.attributes, each null_value already parsed for its type
dict_struct ==
    << [name |-> "x", type |-> "uint32", null_value |-> 3],
       [name |-> "s", type |-> "string", null_value |-> StrNull] >>

AttrIdx == 1 .. Len(dict_struct)

\* the attribute_t built for one attribute of dict_struct (its arrays are
\* the variable `arrays`)
createAttributeWithType(type, null_value) ==
    [type |-> type, null_values |-> null_value]

\* createAttributes: the attribute vector and the name index
attributes ==
    [i \in AttrIdx |->
        createAttributeWithType(dict_struct[i].type, dict_struct[i].null_value)]

attribute_index_by_name ==
    [n \in {dict_struct[i].name : i \in AttrIdx} |->
        CHOOSE i \in AttrIdx : dict_struct[i].name = n]

\* the member `size`: the capacity
size == ToNat(round_up_to_power_of_two(ToWord(RequestedSize)))

Slots == 0 .. size - 1

\* the keys lookups and the source use
Ids == {0, 1, 5}

\* intHash64 (DB/Common/HashTable/Hash.h): keys 1 and 5 collide at capacity 4
intHash64(id) == id

\* hash & (size - 1), in size_t arithmetic
CellIdx ==
    [id \in Ids |->
        ToNat(WordAnd(ToWord(intHash64(id)), WordDec(ToWord(size))))]

\* an index computed from the hash plus one
getCellIdxShifted(id) == (CellIdx[id] + 1) % size

getCellIdx(id) == CellIdx[id]

\* a comparison that expires a cell one second early
hasTimeExpiredEarly(time_point, clock) == clock + 1 >= time_point

hasTimeExpired(time_point, clock) == clock >= time_point

(***************************************************************************)
(* Poco::RWLock                                                            *)
(***************************************************************************)
LockFree == [readers |-> 0, writer |-> FALSE]

CanReadLock(l) == ~l.writer
\* a lock that lets a writer in among readers
CanWriteLockAmongReaders(l) == ~l.writer


CanWriteLock(l) == ~l.writer /\ l.readers = 0

ReadLock(l) == [l EXCEPT !.readers = @ + 1]

ReadUnlock(l) == [l EXCEPT !.readers = @ - 1]

WriteLock(l) == [l EXCEPT !.writer = TRUE]

WriteUnlock(l) == [l EXCEPT !.writer = FALSE]

(***************************************************************************)
(* String storage: StringRef{data, size} into buffers made with new[]      *)
(***************************************************************************)
NullPtr == 0

NUL == "nul"

HeapAddrs == 1 .. size

FreeBuf == [alloc |-> FALSE, bytes |-> << >>]

StringRefEmpty == [data |-> NullPtr, size |-> 0]

\* new char[n]: some address that is not allocated
NewAddr(hp) == CHOOSE a \in HeapAddrs : ~hp[a].alloc /\ \A b \in HeapAddrs : b < a => hp[b].alloc

\* the bytes a StringRef denotes: `size` bytes starting at `data`
RefBytes(hp, ref) ==
    IF ref.size = 0 THEN << >> ELSE SubSeq(hp[ref.data].bytes, 1, ref.size)

\* ColumnString (DB/Columns/ColumnString.h): a column of byte strings
insertData(column, bytes) == Append(column, bytes)

resize_assume_reserved_0(column) == << >>

getDataAt(column, n) == column[n + 1]

(***************************************************************************)
(* setAttributeValue: store one Field of a source row into slot idx of an  *)
(* attribute's array.  mem is [arrays, heap].                              *)
(***************************************************************************)
setAttributeValue(mem, attribute_idx, idx, value) ==
    IF attributes[attribute_idx].type # "string"
    THEN [mem EXCEPT !.arrays[attribute_idx][idx] = value]
    ELSE
        LET string_ref == mem.arrays[attribute_idx][idx]
            \* if (string_ref.data) delete[] string_ref.data;
            heap1 == IF string_ref.data # NullPtr
                     THEN [mem.heap EXCEPT ![string_ref.data] = FreeBuf]
                     ELSE mem.heap
            string_ptr == NewAddr(heap1)
        IN  IF Len(value) > 0
            THEN [arrays |-> [mem.arrays EXCEPT ![attribute_idx][idx] =
                                  [data |-> string_ptr, size |-> Len(value)]],
                  heap |-> [heap1 EXCEPT ![string_ptr] =
                                  [alloc |-> TRUE, bytes |-> value \o <<NUL>>]]]
            ELSE [arrays |-> [mem.arrays EXCEPT ![attribute_idx][idx] = StringRefEmpty],
                  heap |-> heap1]

\* the loop over the attributes of one row (update, lines 423-429); it is
\* left where the block has no column for the attribute
RECURSIVE SetRowAttributes(_, _, _, _)
SetRowAttributes(mem, attribute_idx, cell_idx, values) ==
    IF attribute_idx > Len(dict_struct) \/ attribute_idx > Len(values) THEN mem
    ELSE SetRowAttributes(
            setAttributeValue(mem, attribute_idx, cell_idx, values[attribute_idx]),
            attribute_idx + 1, cell_idx, values)

\* std::mt19937_64: one draw moves the engine to its next state
RngStates == 2

Draw(engine) == (engine + 1) % RngStates

(***************************************************************************)
(* The callbacks getItems passes to update.  cb names the attribute and    *)
(* the kind of callback; acc is what the callback captured by reference.   *)
(***************************************************************************)
\* a callback that fills only the first position of id
ScalarOnCellUpdatedFirst(cb, acc, mem, id, cell_idx) ==
    LET attribute_value == mem.arrays[cb.attribute_idx][cell_idx]
        positions == IF id \in DOMAIN cb.outdated_ids THEN cb.outdated_ids[id] ELSE {}
    IN  [acc EXCEPT !.out = [i \in DOMAIN acc.out |->
                                IF i \in positions /\ \A j \in positions : i <= j
                                THEN attribute_value ELSE acc.out[i]]]

\* getItems<T>: out[out_idx] = attribute_value for every position of id
ScalarOnCellUpdated(cb, acc, mem, id, cell_idx) ==
    LET attribute_value == mem.arrays[cb.attribute_idx][cell_idx]
        positions == IF id \in DOMAIN cb.outdated_ids THEN cb.outdated_ids[id] ELSE {}
    IN  [acc EXCEPT !.out = [i \in DOMAIN acc.out |->
                                IF i \in positions THEN attribute_value ELSE acc.out[i]]]

\* getItems(ColumnString): map[id] = attribute_value; total_length += size + 1
StringOnCellUpdated(cb, acc, mem, id, cell_idx) ==
    LET attribute_value == mem.arrays[cb.attribute_idx][cell_idx]
    IN  [acc EXCEPT
            !.map = [k \in DOMAIN acc.map \cup {id} |->
                        IF k = id THEN RefBytes(mem.heap, attribute_value) ELSE acc.map[k]],
            !.total_length = @ + attribute_value.size + 1]

on_cell_updated(cb, acc, mem, id, cell_idx) ==
    IF cb.kind = "scalar"
    THEN ScalarOnCellUpdated(cb, acc, mem, id, cell_idx)
    ELSE StringOnCellUpdated(cb, acc, mem, id, cell_idx)

(***************************************************************************)
(* update: drain the stream of blocks under the write lock.                *)
(* st is [cells, arrays, heap, rnd_engine, rw_lock, hist, acc, ttls,       *)
(* error]; ttls are the values the distribution yields, one per row.       *)
(***************************************************************************)
\* one row of a block (lines 417-440)
UpdateRow(st, row, clock, cb) ==
    LET id == row.id
        cell_idx == getCellIdx(id)
        mem == SetRowAttributes([arrays |-> st.arrays, heap |-> st.heap],
                                1, cell_idx, row.values)
        cell == [id |-> id, expires_at |-> clock + Head(st.ttls)]
        old == st.cells[cell_idx]
    IN  IF Len(row.values) < Len(dict_struct)
        \* block.getByPosition(attribute_idx + 1) throws inside the loop
        THEN [st EXCEPT !.arrays = mem.arrays,
                        !.heap = mem.heap,
                        !.error = "POSITION_OUT_OF_BOUND",
                        !.failed = "row"]
        ELSE
        [st EXCEPT !.cells[cell_idx] = cell,
                   !.hist[cell_idx] =
                       [installed_at |-> clock,
                        evicted |-> IF old.id = id THEN @.evicted ELSE old.id,
                        values |-> row.values],
                   !.processed = @ + 1,
                   !.arrays = mem.arrays,
                   !.heap = mem.heap,
                   !.rnd_engine = Draw(st.rnd_engine),
                   !.ttls = Tail(st.ttls),
                   !.acc = on_cell_updated(cb, st.acc, mem, id, cell_idx)]

RECURSIVE UpdateRows(_, _, _, _)
UpdateRows(st, rows, clock, cb) ==
    IF rows = << >> \/ st.error # "none" THEN st
    ELSE UpdateRows(UpdateRow(st, Head(rows), clock, cb), Tail(rows), clock, cb)

\* while (const auto block = stream->read()) ... (lines 406-441)
RECURSIVE UpdateBlocks(_, _, _, _)
UpdateBlocks(st, blocks, clock, cb) ==
    IF blocks = << >> \/ st.error # "none" THEN st
    ELSE LET block == Head(blocks)
         IN  IF block.throws
             THEN [st EXCEPT !.error = "SOURCE_FAILURE", !.failed = "read"]
             ELSE IF block.id_column # "UInt64"
             THEN [st EXCEPT !.error = "TYPE_MISMATCH", !.failed = "id_column"]
             ELSE UpdateBlocks(UpdateRows(st, block.rows, clock, cb),
                               Tail(blocks), clock, cb)

\* an update that leaves the lock held when it is left by an exception
updateHoldingOnError(st, blocks, clock, cb) ==
    LET locked == [st EXCEPT !.rw_lock = WriteLock(st.rw_lock)]
        done == UpdateBlocks(locked, blocks, clock, cb)
    IN  IF done.error = "none"
        THEN [done EXCEPT !.rw_lock = WriteUnlock(done.rw_lock)]
        ELSE done

\* update(ids, on_cell_updated): the write lock is taken after loadIds and
\* readPrefix and is released when update is left
update(st, blocks, clock, cb) ==
    LET locked == [st EXCEPT !.rw_lock = WriteLock(st.rw_lock)]
        done == UpdateBlocks(locked, blocks, clock, cb)
    IN  [done EXCEPT !.rw_lock = WriteUnlock(done.rw_lock)]

(***************************************************************************)
(* The read phases of getItems.  c is the dictionary state                 *)
(* [cells, arrays, heap, rnd_engine, rw_lock, hist].                       *)
(***************************************************************************)
\* a test that looks at the expiry of the cell only
IsOutdatedAnyId(c, id, clock) ==
    hasTimeExpired(c.cells[getCellIdx(id)].expires_at, clock)

\* cell.id != id || hasTimeExpired(cell.expires_at)
IsOutdated(c, id, clock) ==
    LET cell == c.cells[getCellIdx(id)]
    IN  cell.id # id \/ hasTimeExpired(cell.expires_at, clock)

\* a read phase that reads the column for outdated keys too
ScalarReadPhaseNoDefault(c, attribute_idx, ids, clock) ==
    LET null == attributes[attribute_idx].null_values
        stale == {i \in 1 .. Len(ids) : ids[i] # 0 /\ IsOutdated(c, ids[i], clock)}
    IN  [out |-> [i \in 1 .. Len(ids) |->
                    IF ids[i] = 0 THEN null
                    ELSE c.arrays[attribute_idx][getCellIdx(ids[i])]],
         outdated_ids |-> [id \in {ids[i] : i \in stale} |->
                              {i \in stale : ids[i] = id}]]

\* a read phase that asks the source for key 0 as well
ScalarReadPhaseZeroToo(c, attribute_idx, ids, clock) ==
    LET null == attributes[attribute_idx].null_values
        stale == {i \in 1 .. Len(ids) : ids[i] = 0 \/ IsOutdated(c, ids[i], clock)}
    IN  [out |-> [i \in 1 .. Len(ids) |->
                    IF i \in stale THEN null
                    ELSE c.arrays[attribute_idx][getCellIdx(ids[i])]],
         outdated_ids |-> [id \in {ids[i] : i \in stale} |->
                              {i \in stale : ids[i] = id}]]

\* getItems<T>, lines 250-273: out and outdated_ids after the loop
ScalarReadPhase(c, attribute_idx, ids, clock) ==
    LET null == attributes[attribute_idx].null_values
        stale == {i \in 1 .. Len(ids) : ids[i] # 0 /\ IsOutdated(c, ids[i], clock)}
    IN  [out |-> [i \in 1 .. Len(ids) |->
                    IF ids[i] = 0 THEN null
                    ELSE IF i \in stale THEN null
                    ELSE c.arrays[attribute_idx][getCellIdx(ids[i])]],
         outdated_ids |-> [id \in {ids[i] : i \in stale} |->
                              {i \in stale : ids[i] = id}]]

\* getItems(ColumnString), lines 303-331: the optimistic pass from index i
RECURSIVE OptimisticPass(_, _, _, _, _, _)
OptimisticPass(c, attribute_idx, ids, i, out, clock) ==
    IF i > Len(ids) THEN [out |-> out, found_outdated_values |-> FALSE]
    ELSE IF ids[i] = 0
    THEN OptimisticPass(c, attribute_idx, ids, i + 1,
                        insertData(out, attributes[attribute_idx].null_values), clock)
    ELSE IF IsOutdated(c, ids[i], clock)
    THEN [out |-> out, found_outdated_values |-> TRUE]
    ELSE OptimisticPass(c, attribute_idx, ids, i + 1,
                        insertData(out, RefBytes(c.heap,
                            c.arrays[attribute_idx][getCellIdx(ids[i])])), clock)

\* getItems(ColumnString), lines 341-371: outdated_ids, map and total_length
PessimisticReadPhase(c, attribute_idx, ids, clock) ==
    LET idx == 1 .. Len(ids)
        stale == {i \in idx : ids[i] # 0 /\ IsOutdated(c, ids[i], clock)}
        fresh == {i \in idx : ids[i] # 0 /\ ~IsOutdated(c, ids[i], clock)}
        ref(id) == c.arrays[attribute_idx][getCellIdx(id)]
        RECURSIVE Total(_)
        Total(i) == IF i > Len(ids) THEN 0
                    ELSE (IF ids[i] = 0 THEN 1
                          ELSE IF i \in stale THEN 0
                          ELSE ref(ids[i]).size + 1) + Total(i + 1)
    IN  [outdated_ids |-> [id \in {ids[i] : i \in stale} |->
                              Cardinality({i \in stale : ids[i] = id})],
         map |-> [id \in {ids[i] : i \in fresh} |-> RefBytes(c.heap, ref(id))],
         total_length |-> Total(1)]

\* an emit loop that gives a key its string at its first position only
EmitFromMapOnce(out, attribute_idx, ids, map) ==
    out \o [i \in 1 .. Len(ids) |->
                IF ids[i] \in DOMAIN map /\ \A j \in 1 .. i - 1 : ids[j] # ids[i]
                THEN map[ids[i]]
                ELSE attributes[attribute_idx].null_values]

\* getItems(ColumnString), lines 390-395: the rows emitted from map
EmitFromMap(out, attribute_idx, ids, map) ==
    out \o [i \in 1 .. Len(ids) |->
                IF ids[i] \in DOMAIN map THEN map[ids[i]]
                ELSE attributes[attribute_idx].null_values]

\* the keys of a HashMap in iteration order (DB/Common/HashTable/HashMap.h)
RECURSIVE HashMapKeys(_)
HashMapKeys(S) ==
    IF S = {} THEN << >>
    ELSE LET k == CHOOSE x \in S : \A y \in S : intHash64(x) <= intHash64(y)
         IN  <<k>> \o HashMapKeys(S \ {k})

(***************************************************************************)
(* The source behind source_ptr (IDictionarySource): what it knows and the *)
(* block streams loadIds may return.                                       *)
(***************************************************************************)
NoRow == [known |-> FALSE, values |-> <<0, StrEmpty>>]

Known(x, s) == [known |-> TRUE, values |-> <<x, s>>]

DatasetA ==
    [id \in Ids |-> CASE id = 1 -> Known(7, StrA)
                      [] id = 5 -> Known(9, StrB)
                      [] id = 0 -> Known(8, StrB)
                      [] OTHER -> NoRow]

DatasetB ==
    [id \in Ids |-> CASE id = 1 -> Known(8, StrEmpty)
                      [] id = 0 -> Known(8, StrB)
                      [] OTHER -> NoRow]

Datasets == {DatasetA, DatasetB}

\* all orders of the elements of a finite set
RECURSIVE Perms(_)
Perms(S) ==
    IF S = {} THEN {<< >>}
    ELSE UNION {{<<x>> \o p : p \in Perms(S \ {x})} : x \in S}

RowOf(data, id) == [id |-> id, values |-> data[id].values]

RowsOf(data, order) == [i \in 1 .. Len(order) |-> RowOf(data, order[i])]

Block(rows) == [id_column |-> "UInt64", rows |-> rows, throws |-> FALSE]

\* the ways a stream may cut its rows into blocks
Streams(rows) ==
    IF rows = << >> THEN {<< >>}
    ELSE {<<Block(rows)>>}
         \cup {<<Block(SubSeq(rows, 1, k)), Block(SubSeq(rows, k + 1, Len(rows)))>> :
                  k \in 1 .. Len(rows) - 1}

\* a source that answers loadIds(ids) with the rows it has for ids, in any order
SelectiveLoad(data, ids) ==
    UNION {Streams(RowsOf(data, order)) :
              order \in Perms({ids[i] : i \in 1 .. Len(ids)} \cap {k \in Ids : data[k].known})}

\* the most rows a source that answers with rows of its own choice returns
MaxRows == 2

\* a source that answers loadIds(ids) with rows for any keys it knows
AnyLoad(data, ids) ==
    UNION {Streams(RowsOf(data, order)) :
              order \in UNION {Perms(S) : S \in {T \in SUBSET {k \in Ids : data[k].known} :
                                                    Cardinality(T) <= MaxRows}}}

\* stream->read() throws instead of returning a block
ThrowingRead == [id_column |-> "UInt64", rows |-> << >>, throws |-> TRUE]

\* a block whose first column is not a ColumnVector<UInt64>
BadIdBlock(rows) == [id_column |-> "String", rows |-> rows, throws |-> FALSE]

\* a block that carries the id column and the first attribute column only
ShortBlock(rows) ==
    Block([i \in 1 .. Len(rows) |-> [rows[i] EXCEPT !.values = SubSeq(@, 1, 1)]])

\* the ways a stream of blocks may go wrong at its k-th block
FailuresAt(stream, k) ==
    {SubSeq(stream, 1, k - 1) \o <<ThrowingRead>>}
    \cup (IF k <= Len(stream)
          THEN {SubSeq(stream, 1, k - 1) \o <<BadIdBlock(stream[k].rows)>>,
                SubSeq(stream, 1, k - 1) \o <<ShortBlock(stream[k].rows)>>}
          ELSE {})

\* a source that answers selectively and whose stream may fail
FailingLoad(data, ids) ==
    SelectiveLoad(data, ids)
    \cup UNION {UNION {FailuresAt(stream, k) : k \in 1 .. Len(stream) + 1} :
                  stream \in SelectiveLoad(data, ids)}

loadIds(mode, data, ids) ==
    IF mode = "selective" THEN SelectiveLoad(data, ids)
    ELSE IF mode = "failing" THEN FailingLoad(data, ids)
    ELSE AnyLoad(data, ids)

RECURSIVE FlatRows(_)
FlatRows(blocks) ==
    IF blocks = << >> THEN << >> ELSE Head(blocks).rows \o FlatRows(Tail(blocks))

\* a distribution that may exceed max_sec by a second
TtlChoicesBeyond(lifetime, n) == [1 .. n -> lifetime.min_sec .. lifetime.max_sec + 1]

\* the values std::uniform_int_distribution{min_sec, max_sec} may yield for n rows
TtlChoices(lifetime, n) == [1 .. n -> lifetime.min_sec .. lifetime.max_sec]

(***************************************************************************)
(* getItems as a whole: the set of results a call may produce, one per     *)
(* stream the source may return and per sequence of drawn lifetimes.       *)
(* A result is the dictionary state after the call with what the call did. *)
(***************************************************************************)
Refreshes(mode, data, lifetime, required_ids) ==
    UNION {{[blocks |-> b, ttls |-> t] : t \in TtlChoices(lifetime, Len(FlatRows(b)))} :
              b \in loadIds(mode, data, required_ids)}

Result(st, out, path, loads, rows, locks, total_length) ==
    [cells |-> st.cells, arrays |-> st.arrays, heap |-> st.heap,
     rnd_engine |-> st.rnd_engine, rw_lock |-> st.rw_lock, hist |-> st.hist,
     out |-> out, path |-> path, loads |-> loads, rows |-> rows, locks |-> locks,
     total_length |-> total_length, error |-> st.error,
     processed |-> st.processed, failed |-> st.failed]

UpdateState(c, acc, ttls) ==
    [cells |-> c.cells, arrays |-> c.arrays, heap |-> c.heap,
     rnd_engine |-> c.rnd_engine, rw_lock |-> c.rw_lock, hist |-> c.hist,
     acc |-> acc, ttls |-> ttls, error |-> "none", processed |-> 0, failed |-> "none"]

\* template <typename T> void getItems(attribute_idx, ids, out), lines 243-290
getItemsScalar(c, attribute_idx, ids, out0, clock, mode, data, lifetime) ==
    LET locked == [c EXCEPT !.rw_lock = ReadLock(c.rw_lock)]
        read == ScalarReadPhase(locked, attribute_idx, ids, clock)
        out1 == [i \in 1 .. Len(out0) |->
                    IF i \in 1 .. Len(ids) THEN read.out[i] ELSE out0[i]]
        c1 == [locked EXCEPT !.rw_lock = ReadUnlock(locked.rw_lock)]
        outdated_ids == read.outdated_ids
        required_ids == HashMapKeys(DOMAIN outdated_ids)
        cb == [kind |-> "scalar", attribute_idx |-> attribute_idx,
               outdated_ids |-> outdated_ids]
    IN  IF DOMAIN outdated_ids = {}
        THEN {Result(UpdateState(c1, [out |-> out1], << >>), out1, "scalar",
                     << >>, << >>, <<"read">>, 0)}
        ELSE {LET st == update(UpdateState(c1, [out |-> out1], r.ttls),
                               r.blocks, clock, cb)
              IN  Result(st, st.acc.out, "scalar", <<required_ids>>,
                         FlatRows(r.blocks), <<"read", "write">>, 0) :
                 r \in Refreshes(mode, data, lifetime, required_ids)}

\* void getItems(attribute_idx, ids, ColumnString * out), lines 292-396
getItemsString(c, attribute_idx, ids, out0, clock, mode, data, lifetime) ==
    LET locked == [c EXCEPT !.rw_lock = ReadLock(c.rw_lock)]
        opt == OptimisticPass(locked, attribute_idx, ids, 1, out0, clock)
        c1 == [locked EXCEPT !.rw_lock = ReadUnlock(locked.rw_lock)]
        \* discard possibly partial results from the optimistic path
        out1 == resize_assume_reserved_0(opt.out)
        locked2 == [c1 EXCEPT !.rw_lock = ReadLock(c1.rw_lock)]
        read == PessimisticReadPhase(locked2, attribute_idx, ids, clock)
        c2 == [locked2 EXCEPT !.rw_lock = ReadUnlock(locked2.rw_lock)]
        outdated_ids == read.outdated_ids
        required_ids == HashMapKeys(DOMAIN outdated_ids)
        acc0 == [map |-> read.map, total_length |-> read.total_length]
        cb == [kind |-> "string", attribute_idx |-> attribute_idx]
    IN  IF ~opt.found_outdated_values
        THEN {Result(UpdateState(c1, acc0, << >>), opt.out, "optimistic",
                     << >>, << >>, <<"read">>, 0)}
        ELSE IF DOMAIN outdated_ids = {}
        THEN {Result(UpdateState(c2, acc0, << >>),
                     EmitFromMap(out1, attribute_idx, ids, acc0.map), "pessimistic",
                     << >>, << >>, <<"read", "read">>, acc0.total_length)}
        ELSE {LET st == update(UpdateState(c2, acc0, r.ttls), r.blocks, clock, cb)
              IN  Result(st,
                         IF st.error = "none"
                         THEN EmitFromMap(out1, attribute_idx, ids, st.acc.map)
                         ELSE out1,
                         "pessimistic", <<required_ids>>, FlatRows(r.blocks),
                         <<"read", "read", "write">>, st.acc.total_length) :
                 r \in Refreshes(mode, data, lifetime, required_ids)}

(***************************************************************************)
(* The typed getters (DECLARE_INDIVIDUAL_GETTER, DECLARE_MULTIPLE_GETTER,  *)
(* getString) and the state machine.                                       *)
(***************************************************************************)
\* a type check that lets a wider unsigned getter read a uint32 attribute
CheckAttributeWidening(attribute_name, type) ==
    IF attribute_name \notin DOMAIN attribute_index_by_name THEN "BAD_ARGUMENTS"
    ELSE IF attributes[attribute_index_by_name[attribute_name]].type # type
            /\ ~(attributes[attribute_index_by_name[attribute_name]].type = "uint32"
                    /\ type = "uint64")
    THEN "TYPE_MISMATCH"
    ELSE "ok"

\* getAttributeIndex followed by the getter's type check
CheckAttribute(attribute_name, type) ==
    IF attribute_name \notin DOMAIN attribute_index_by_name THEN "BAD_ARGUMENTS"
    ELSE IF attributes[attribute_index_by_name[attribute_name]].type # type
    THEN "TYPE_MISMATCH"
    ELSE "ok"

Dictionary == [cells |-> cells, arrays |-> arrays, heap |-> heap,
               rnd_engine |-> rnd_engine, rw_lock |-> rw_lock, hist |-> hist]

\* history: the cells and their history as a getter finds them
Probed == [cells |-> cells, hist |-> hist]

NoCall ==
    [api |-> "none", getter |-> "none", attribute_name |-> "none", status |-> "none",
     ids |-> << >>, out0 |-> << >>, out |-> << >>, path |-> "none",
     loads |-> << >>, rows |-> << >>, locks |-> << >>, total_length |-> 0,
     processed |-> 0, failed |-> "none",
     pre |-> [cells |-> << >>, hist |-> << >>]]

\* the getter throws before getItems is reached
Throws(api, type, attribute_name, status) ==
    /\ pc' = "returned"
    /\ last' = [NoCall EXCEPT !.api = api, !.getter = type,
                              !.attribute_name = attribute_name, !.status = status,
                              !.pre = Probed]
    /\ UNCHANGED <<now, dict_lifetime, source_data, cells, arrays, heap, rw_lock,
                   rnd_engine, hist, threads>>

\* getItems ran and left result r
Returns(api, type, attribute_name, ids, out0, r) ==
    /\ pc' = "returned"
    /\ cells' = r.cells
    /\ arrays' = r.arrays
    /\ heap' = r.heap
    /\ rnd_engine' = r.rnd_engine
    /\ rw_lock' = r.rw_lock
    /\ hist' = r.hist
    /\ last' = [api |-> api, getter |-> type, attribute_name |-> attribute_name,
                status |-> IF r.error = "none" THEN "ok" ELSE r.error,
                ids |-> ids, out0 |-> out0, out |-> r.out, path |-> r.path,
                loads |-> r.loads, rows |-> r.rows, locks |-> r.locks,
                total_length |-> r.total_length,
                processed |-> r.processed, failed |-> r.failed, pre |-> Probed]
    /\ UNCHANGED <<now, dict_lifetime, source_data, threads>>

\* a getter called with one of the argument pairs [ids, out] of `calls`
Getter(api, type, attribute_name, calls, mode) ==
    /\ pc = "idle"
    /\ CanReadLock(rw_lock)
    /\ LET status == CheckAttribute(attribute_name, type)
           attribute_idx == attribute_index_by_name[attribute_name]
       IN  IF status # "ok"
           THEN Throws(api, type, attribute_name, status)
           ELSE \E call \in calls :
                \E r \in IF type = "string"
                         THEN getItemsString(Dictionary, attribute_idx, call.ids, call.out,
                                             now, mode, source_data, dict_lifetime)
                         ELSE getItemsScalar(Dictionary, attribute_idx, call.ids, call.out,
                                             now, mode, source_data, dict_lifetime) :
                    Returns(api, type, attribute_name, call.ids, call.out, r)

\* the longest id array a lookup is called with
MaxBatch == 3

\* the clock stops advancing here
MaxTime == 3

Batches == UNION {[1 .. n -> Ids] : n \in 0 .. MaxBatch}

AttributeNames == {"x", "s", "y"}

\* a PODArray<T> of n elements that nothing has written yet
Unwritten(n) == [i \in 1 .. n |-> -1]

\* the ColumnString a caller passes to the batched getString
OutColumns == {<< >>, <<StrPrior>>}

\* TYPE getTYPE(attribute_name, id) and String getString(attribute_name, id)
GetSingle(type, attribute_name, mode) ==
    Getter("single", type, attribute_name,
           {[ids |-> <<id>>, out |-> IF type = "string" THEN << >> ELSE Unwritten(1)] :
               id \in Ids},
           mode)

\* void getTYPE(attribute_name, ids, out), scalar types
GetMultiple(type, attribute_name, mode) ==
    /\ type # "string"
    /\ Getter("multiple", type, attribute_name,
              {[ids |-> ids, out |-> Unwritten(Len(ids))] : ids \in Batches}, mode)

\* void getString(attribute_name, ids, ColumnString * out)
GetStringMultiple(attribute_name, mode) ==
    Getter("multiple", "string", attribute_name,
           {[ids |-> ids, out |-> out] : ids \in Batches, out \in OutColumns}, mode)

\* the caller takes the result
Return ==
    /\ pc = "returned"
    /\ pc' = "idle"
    /\ last' = NoCall
    /\ UNCHANGED <<now, dict_lifetime, source_data, cells, arrays, heap, rw_lock,
                   rnd_engine, hist, threads>>

\* a second passes
Tick ==
    /\ pc = "idle"
    /\ now < MaxTime
    /\ now' = now + 1
    /\ UNCHANGED <<dict_lifetime, source_data, cells, arrays, heap, rw_lock,
                   rnd_engine, hist, pc, last, threads>>

\* the data behind the source changes
SourceChanges ==
    /\ pc = "idle"
    /\ source_data' \in Datasets \ {source_data}
    /\ UNCHANGED <<now, dict_lifetime, cells, arrays, heap, rw_lock, rnd_engine,
                   hist, pc, last, threads>>

\* the threads that share the dictionary
Threads == {"t1", "t2"}

\* a thread outside the getters
IdleThread ==
    [pc |-> "idle", kind |-> "none", attribute_idx |-> 0, ids |-> << >>, i |-> 0,
     holds |-> "none", found_outdated_values |-> FALSE, outdated_ids |-> << >>,
     acc |-> [out |-> << >>, map |-> << >>, total_length |-> 0],
     stream |-> << >>, rows |-> << >>, acquired |-> 0, installed |-> 0]

\* the attribute the threads read with a getter of a kind
SchemaIdxOfKind(kind) ==
    CHOOSE a \in AttrIdx : (attributes[a].type = "string") <=> (kind = "string")

\* the dictionary as its constructor leaves it (lines 22-37, 167-236)
InitDictionary ==
    /\ cells = [i \in Slots |-> [id |-> 0, expires_at |-> 0]]
    /\ arrays = [a \in AttrIdx |-> [i \in Slots |->
                    IF attributes[a].type = "string" THEN StringRefEmpty ELSE 0]]
    /\ heap = [a \in HeapAddrs |-> FreeBuf]
    /\ rw_lock = LockFree
    /\ rnd_engine = 0
    /\ hist = [i \in Slots |-> [installed_at |-> 0, evicted |-> 0, values |-> << >>]]
    /\ pc = "idle"
    /\ last = NoCall
    /\ threads = [t \in Threads |-> IdleThread]

Init ==
    /\ now = 1
    /\ dict_lifetime = [min_sec |-> 2, max_sec |-> 3]
    /\ source_data \in Datasets
    /\ InitDictionary
    /\ rup_pc = "done"
    /\ rup_n = ToWord(RequestedSize)
    /\ rup_size = round_up_to_power_of_two(rup_n)

Next ==
    \/ \E type \in AttributeType, name \in AttributeNames :
          GetSingle(type, name, "selective") /\ UNCHANGED rupVars
    \/ \E type \in AttributeType, name \in AttributeNames :
          GetMultiple(type, name, "selective") /\ UNCHANGED rupVars
    \/ \E name \in AttributeNames :
          GetStringMultiple(name, "selective") /\ UNCHANGED rupVars
    \/ Return /\ UNCHANGED rupVars
    \/ Tick /\ UNCHANGED rupVars
    \/ SourceChanges /\ UNCHANGED rupVars

Spec == Init /\ [][Next]_vars

(***************************************************************************)
(* The same dictionary in front of a source whose data never change.       *)
(***************************************************************************)
NextFixedSource ==
    \/ \E type \in AttributeType, name \in AttributeNames :
          GetSingle(type, name, "selective") /\ UNCHANGED rupVars
    \/ \E type \in AttributeType, name \in AttributeNames :
          GetMultiple(type, name, "selective") /\ UNCHANGED rupVars
    \/ \E name \in AttributeNames :
          GetStringMultiple(name, "selective") /\ UNCHANGED rupVars
    \/ Return /\ UNCHANGED rupVars
    \/ Tick /\ UNCHANGED rupVars

SpecFixedSource == Init /\ [][NextFixedSource]_vars

(***************************************************************************)
(* The same dictionary in front of a source that answers loadIds with rows *)
(* of its own choice, whatever ids were asked for.                         *)
(***************************************************************************)
NextAnyRows ==
    \/ \E type \in AttributeType, name \in AttributeNames :
          GetMultiple(type, name, "any") /\ UNCHANGED rupVars
    \/ \E name \in AttributeNames :
          GetStringMultiple(name, "any") /\ UNCHANGED rupVars
    \/ Return /\ UNCHANGED rupVars

InitAnyRows ==
    /\ now = 1
    /\ dict_lifetime = [min_sec |-> 2, max_sec |-> 2]
    /\ source_data = DatasetA
    /\ InitDictionary
    /\ rup_pc = "done"
    /\ rup_n = ToWord(RequestedSize)
    /\ rup_size = round_up_to_power_of_two(rup_n)

SpecAnyRows == InitAnyRows /\ [][NextAnyRows]_vars

(***************************************************************************)
(* Dictionaries constructed with other lifetimes, min_sec = 0 among them.  *)
(***************************************************************************)
Lifetimes ==
    {[min_sec |-> 0, max_sec |-> 0], [min_sec |-> 0, max_sec |-> 1],
     [min_sec |-> 1, max_sec |-> 2]}

InitLifetimes ==
    /\ now = 1
    /\ dict_lifetime \in Lifetimes
    /\ source_data \in Datasets
    /\ InitDictionary
    /\ rup_pc = "done"
    /\ rup_n = ToWord(RequestedSize)
    /\ rup_size = round_up_to_power_of_two(rup_n)

SpecLifetimes == InitLifetimes /\ [][NextFixedSource]_vars

(***************************************************************************)
(* The life of a dictionary to its end.  The class declares no destructor: *)
(* the implicit one destroys cells and attributes, and with attributes the *)
(* StringRef arrays, which are arrays of a type without a destructor.      *)
(***************************************************************************)
Destroy ==
    /\ pc = "idle"
    /\ pc' = "destroyed"
    /\ cells' = << >>
    /\ arrays' = [a \in AttrIdx |-> << >>]
    /\ UNCHANGED <<now, dict_lifetime, source_data, heap, rw_lock, rnd_engine,
                   hist, last, threads>>

NextDestroy ==
    \/ \E type \in AttributeType, name \in AttributeNames :
          GetSingle(type, name, "selective") /\ UNCHANGED rupVars
    \/ \E type \in AttributeType, name \in AttributeNames :
          GetMultiple(type, name, "selective") /\ UNCHANGED rupVars
    \/ \E name \in AttributeNames :
          GetStringMultiple(name, "selective") /\ UNCHANGED rupVars
    \/ Return /\ UNCHANGED rupVars
    \/ Tick /\ UNCHANGED rupVars
    \/ Destroy /\ UNCHANGED rupVars

SpecDestroy == Init /\ [][NextDestroy]_vars

(***************************************************************************)
(* The same dictionary in front of a source whose streams may fail.        *)
(***************************************************************************)
NextFailing ==
    \/ \E type \in AttributeType, name \in AttributeNames :
          GetMultiple(type, name, "failing") /\ UNCHANGED rupVars
    \/ \E name \in AttributeNames :
          GetStringMultiple(name, "failing") /\ UNCHANGED rupVars
    \/ Return /\ UNCHANGED rupVars
    \/ Tick /\ UNCHANGED rupVars

SpecFailing == InitAnyRows /\ [][NextFailing]_vars

(***************************************************************************)
(* Threads calling the getters on one dictionary.  A getter is cut where   *)
(* another thread can run: at each lock operation, at each key a read      *)
(* phase probes, at the call of the source, at each block the stream       *)
(* yields and at each row update installs.                                 *)
(***************************************************************************)
\* the batches the threads look up
ThreadBatches == {<<1>>, <<1, 5>>, <<0, 5>>}

\* what getItems captures for its callback
Callback(th) ==
    [kind |-> th.kind, attribute_idx |-> th.attribute_idx,
     outdated_ids |-> th.outdated_ids]

\* a getter that leaves its read scope only after update
LeaveReadScopeLate(th, l) ==
    IF th.pc = "probe2" \/ th.kind = "scalar"
    THEN [thread |-> th, rw_lock |-> l]
    ELSE [thread |-> [th EXCEPT !.holds = "none"], rw_lock |-> ReadUnlock(l)]

\* ~ScopedReadRWLock at the closing brace of a read phase (lines 273, 331, 371)
LeaveReadScope(th, l) ==
    [thread |-> [th EXCEPT !.holds = "none"], rw_lock |-> ReadUnlock(l)]

\* an update that gives the write lock up after each block
BetweenBlocksUnlocked(th, l) ==
    [thread |-> [th EXCEPT !.pc = "write_lock", !.holds = "none"],
     rw_lock |-> WriteUnlock(l)]

\* update, line 441 back to line 406: the lock of line 404 is still held
BetweenBlocks(th, l) ==
    [thread |-> [th EXCEPT !.pc = "read_block"], rw_lock |-> l]

\* getUInt32(name, ids, out) or getString(name, ids, out) is entered with one
\* of the batches
CallWith(t, batches) ==
    /\ threads[t].pc = "idle"
    /\ \E kind \in {"scalar", "string"}, ids \in batches :
          threads' = [threads EXCEPT ![t] =
              [IdleThread EXCEPT
                  !.pc = "read_lock",
                  !.kind = kind,
                  !.attribute_idx = SchemaIdxOfKind(kind),
                  !.ids = ids,
                  !.acc = [out |-> IF kind = "scalar" THEN Unwritten(Len(ids)) ELSE << >>,
                           map |-> << >>, total_length |-> 0]]]
    /\ UNCHANGED <<now, dict_lifetime, source_data, cells, arrays, heap, rw_lock,
                   rnd_engine, hist, pc, last>>

Call(t) == CallWith(t, ThreadBatches)

\* ScopedReadRWLock read_lock{rw_lock} (lines 251, 304, 348)
AcquireRead(t) ==
    LET th == threads[t]
    IN  /\ th.pc \in {"read_lock", "read_lock2"}
        /\ CanReadLock(rw_lock)
        /\ rw_lock' = ReadLock(rw_lock)
        /\ threads' = [threads EXCEPT ![t] =
              [th EXCEPT !.pc = IF th.pc = "read_lock" THEN "probe" ELSE "probe2",
                         !.holds = "read",
                         !.i = 1]]
        /\ UNCHANGED <<now, dict_lifetime, source_data, cells, arrays, heap,
                       rnd_engine, hist, pc, last>>

\* one iteration of the loop of getItems<T> (lines 253-272)
ProbeScalar(th) ==
    LET id == th.ids[th.i]
        read == ScalarReadPhase(Dictionary, th.attribute_idx, <<id>>, now)
        stale == id \in DOMAIN read.outdated_ids
    IN  [th EXCEPT
            !.i = @ + 1,
            !.acc.out[th.i] = read.out[1],
            !.outdated_ids =
                IF stale
                THEN [k \in DOMAIN @ \cup {id} |->
                         IF k = id
                         THEN (IF id \in DOMAIN @ THEN @[id] ELSE {}) \cup {th.i}
                         ELSE @[k]]
                ELSE @]

\* one iteration of the optimistic loop (lines 307-330)
ProbeOptimistic(th) ==
    LET id == th.ids[th.i]
        opt == OptimisticPass(Dictionary, th.attribute_idx, <<id>>, 1, th.acc.out, now)
    IN  IF opt.found_outdated_values
        THEN [th EXCEPT !.found_outdated_values = TRUE, !.i = Len(th.ids) + 1]
        ELSE [th EXCEPT !.i = @ + 1, !.acc.out = opt.out]

\* one iteration of the pessimistic loop (lines 350-370)
ProbePessimistic(th) ==
    LET id == th.ids[th.i]
        read == PessimisticReadPhase(Dictionary, th.attribute_idx, <<id>>, now)
        old == th.outdated_ids
    IN  [th EXCEPT
            !.i = @ + 1,
            !.outdated_ids =
                [k \in DOMAIN old \cup DOMAIN read.outdated_ids |->
                    (IF k \in DOMAIN old THEN old[k] ELSE 0)
                    + (IF k \in DOMAIN read.outdated_ids THEN read.outdated_ids[k] ELSE 0)],
            !.acc.map =
                [k \in DOMAIN @ \cup DOMAIN read.map |->
                    IF k \in DOMAIN read.map THEN read.map[k] ELSE @[k]],
            !.acc.total_length = @ + read.total_length]

\* a read phase looks at its next key
Probe(t) ==
    LET th == threads[t]
    IN  /\ th.pc \in {"probe", "probe2"}
        /\ th.i <= Len(th.ids)
        /\ threads' = [threads EXCEPT ![t] =
              IF th.pc = "probe2" THEN ProbePessimistic(th)
              ELSE IF th.kind = "scalar" THEN ProbeScalar(th)
              ELSE ProbeOptimistic(th)]
        /\ UNCHANGED <<now, dict_lifetime, source_data, cells, arrays, heap, rw_lock,
                       rnd_engine, hist, pc, last>>

\* where a getter goes when a read phase is over (lines 274-275, 333-339, 373-374)
AfterReadPhase(th) ==
    IF th.pc = "probe" /\ th.kind = "string"
    THEN IF th.found_outdated_values
         THEN [th EXCEPT !.pc = "read_lock2",
                         !.acc.out = resize_assume_reserved_0(@)]
         ELSE IdleThread
    ELSE IF DOMAIN th.outdated_ids = {} THEN IdleThread
    ELSE [th EXCEPT !.pc = "load"]

\* the read scope ends; the getter returns or goes on
ReleaseRead(t) ==
    LET th == threads[t]
        left == LeaveReadScope(th, rw_lock)
        next == AfterReadPhase(left.thread)
    IN  /\ th.pc \in {"probe", "probe2"}
        /\ th.i > Len(th.ids)
        /\ rw_lock' = left.rw_lock
        /\ threads' = [threads EXCEPT ![t] =
              IF next = IdleThread THEN [IdleThread EXCEPT !.holds = left.thread.holds]
              ELSE next]
        /\ UNCHANGED <<now, dict_lifetime, source_data, cells, arrays, heap,
                       rnd_engine, hist, pc, last>>

\* update: source_ptr->loadIds(ids) and stream->readPrefix() (lines 401-402)
Load(t) ==
    LET th == threads[t]
    IN  /\ th.pc = "load"
        /\ \E stream \in loadIds("selective", source_data,
                                 HashMapKeys(DOMAIN th.outdated_ids)) :
              threads' = [threads EXCEPT ![t] =
                  [th EXCEPT !.pc = "write_lock", !.stream = stream]]
        /\ UNCHANGED <<now, dict_lifetime, source_data, cells, arrays, heap, rw_lock,
                       rnd_engine, hist, pc, last>>

\* update: ScopedWriteRWLock write_lock{rw_lock} (line 404)
AcquireWrite(t) ==
    LET th == threads[t]
    IN  /\ th.pc = "write_lock"
        /\ CanWriteLock(rw_lock)
        /\ rw_lock' = WriteLock(rw_lock)
        /\ threads' = [threads EXCEPT ![t] =
              [th EXCEPT !.pc = "read_block", !.holds = "write", !.acquired = @ + 1]]
        /\ UNCHANGED <<now, dict_lifetime, source_data, cells, arrays, heap,
                       rnd_engine, hist, pc, last>>

\* update: stream->read() yields a block (lines 406-415)
ReadBlock(t) ==
    LET th == threads[t]
    IN  /\ th.pc = "read_block"
        /\ th.stream # << >>
        /\ threads' = [threads EXCEPT ![t] =
              [th EXCEPT !.pc = "install",
                         !.rows = Head(th.stream).rows,
                         !.stream = Tail(th.stream)]]
        /\ UNCHANGED <<now, dict_lifetime, source_data, cells, arrays, heap, rw_lock,
                       rnd_engine, hist, pc, last>>

\* update: one row of the block is installed (lines 417-440)
InstallRow(t) ==
    LET th == threads[t]
    IN  /\ th.pc = "install"
        /\ th.rows # << >>
        /\ \E ttls \in TtlChoices(dict_lifetime, 1) :
              LET st == UpdateRow(UpdateState(Dictionary, th.acc, ttls),
                                  Head(th.rows), now, Callback(th))
                  row_done == [th EXCEPT !.rows = Tail(@),
                                         !.installed = @ + 1,
                                         !.acc = st.acc]
                  next == IF Tail(th.rows) = << >>
                          THEN BetweenBlocks(row_done, rw_lock)
                          ELSE [thread |-> row_done, rw_lock |-> rw_lock]
              IN  /\ cells' = st.cells
                  /\ arrays' = st.arrays
                  /\ heap' = st.heap
                  /\ rnd_engine' = st.rnd_engine
                  /\ hist' = st.hist
                  /\ rw_lock' = next.rw_lock
                  /\ threads' = [threads EXCEPT ![t] = next.thread]
        /\ UNCHANGED <<now, dict_lifetime, source_data, pc, last>>

\* update: the stream has ended, readSuffix, the write scope ends (lines 443-444);
\* the string getter emits its rows (lines 388-395) and the getter returns
FinishUpdate(t) ==
    LET th == threads[t]
    IN  /\ th.pc = "read_block"
        /\ th.stream = << >>
        /\ rw_lock' = WriteUnlock(rw_lock)
        /\ threads' = [threads EXCEPT ![t] =
              [IdleThread EXCEPT !.holds = IF th.holds = "write" THEN "none" ELSE th.holds]]
        /\ UNCHANGED <<now, dict_lifetime, source_data, cells, arrays, heap,
                       rnd_engine, hist, pc, last>>

NextThreads ==
    \/ \E t \in Threads : Call(t) /\ UNCHANGED rupVars
    \/ \E t \in Threads : AcquireRead(t) /\ UNCHANGED rupVars
    \/ \E t \in Threads : Probe(t) /\ UNCHANGED rupVars
    \/ \E t \in Threads : ReleaseRead(t) /\ UNCHANGED rupVars
    \/ \E t \in Threads : Load(t) /\ UNCHANGED rupVars
    \/ \E t \in Threads : AcquireWrite(t) /\ UNCHANGED rupVars
    \/ \E t \in Threads : ReadBlock(t) /\ UNCHANGED rupVars
    \/ \E t \in Threads : InstallRow(t) /\ UNCHANGED rupVars
    \/ \E t \in Threads : FinishUpdate(t) /\ UNCHANGED rupVars
    \/ Tick /\ UNCHANGED rupVars

SpecThreads == InitAnyRows /\ [][NextThreads]_vars

(***************************************************************************)
(* The threads under a fair scheduler and a fair lock: a thread that can   *)
(* take a step inside a getter takes one, and a thread that asks for a     *)
(* lock which is free again and again gets it.  The streams of the source  *)
(* are finite, so a thread that drains one reaches its end.                *)
(***************************************************************************)
\* the steps of t that wait for nothing
Runs(t) ==
    Probe(t) \/ ReleaseRead(t) \/ Load(t) \/ ReadBlock(t) \/ InstallRow(t)
    \/ FinishUpdate(t)

FairThreads ==
    \A t \in Threads :
        /\ WF_vars(Runs(t) /\ UNCHANGED rupVars)
        /\ SF_vars(AcquireRead(t) /\ UNCHANGED rupVars)
        /\ SF_vars(AcquireWrite(t) /\ UNCHANGED rupVars)

\* the batch of the threads whose lookups are followed to their return: its
\* keys share a slot, so each lookup finds a key outdated and refreshes
CollidingBatches == {<<1, 5>>}

NextThreadsFair ==
    \/ \E t \in Threads : CallWith(t, CollidingBatches) /\ UNCHANGED rupVars
    \/ \E t \in Threads : AcquireRead(t) /\ UNCHANGED rupVars
    \/ \E t \in Threads : Probe(t) /\ UNCHANGED rupVars
    \/ \E t \in Threads : ReleaseRead(t) /\ UNCHANGED rupVars
    \/ \E t \in Threads : Load(t) /\ UNCHANGED rupVars
    \/ \E t \in Threads : AcquireWrite(t) /\ UNCHANGED rupVars
    \/ \E t \in Threads : ReadBlock(t) /\ UNCHANGED rupVars
    \/ \E t \in Threads : InstallRow(t) /\ UNCHANGED rupVars
    \/ \E t \in Threads : FinishUpdate(t) /\ UNCHANGED rupVars

SpecThreadsFair == InitAnyRows /\ [][NextThreadsFair]_vars /\ FairThreads

(***************************************************************************)
(* The capacity computation of the constructor on its own:                 *)
(* size{round_up_to_power_of_two(size)} for the sizes of SizeInputs.       *)
(***************************************************************************)
Pow2(k) == [i \in BitIdx |-> IF i = k THEN 1 ELSE 0]

\* 2^k - 1
Ones(k) == [i \in BitIdx |-> IF i < k THEN 1 ELSE 0]

\* 2^k + 1
Pow2Plus1(k) == [i \in BitIdx |-> IF i = k \/ i = 0 THEN 1 ELSE 0]

SizeInputs ==
    {WordZero}
    \cup {Pow2(k) : k \in BitIdx}
    \cup {Ones(k) : k \in 1 .. WordBits}
    \cup {Pow2Plus1(k) : k \in 1 .. WordBits - 1}
    \cup {ToWord(k) : k \in 0 .. 17}

RoundUp ==
    /\ rup_pc = "start"
    /\ rup_size' = round_up_to_power_of_two(rup_n)
    /\ rup_pc' = "done"
    /\ UNCHANGED rup_n

InitRound ==
    /\ now = 1
    /\ dict_lifetime = [min_sec |-> 2, max_sec |-> 3]
    /\ source_data = DatasetA
    /\ InitDictionary
    /\ rup_pc = "start"
    /\ rup_n \in SizeInputs
    /\ rup_size = WordZero

NextRound == RoundUp /\ UNCHANGED cacheVars

SpecRound == InitRound /\ [][NextRound]_vars

(***************************************************************************)
(* Properties.                                                             *)
(***************************************************************************)
Returned == pc = "returned"

ReturnedOk == Returned /\ last.status = "ok"

\* a step in which a getter runs from call to return
CallStep == pc = "idle" /\ pc' = "returned"

Range(seq) == {seq[i] : i \in 1 .. Len(seq)}

\* the schema, read from dict_struct
Declared(name) == \E i \in AttrIdx : dict_struct[i].name = name

SchemaIdx(name) == CHOOSE i \in AttrIdx : dict_struct[i].name = name

KindOf(name) == dict_struct[SchemaIdx(name)].type

NullOf(name) == dict_struct[SchemaIdx(name)].null_value

\* slot_of(k) = hash64(k) & (N - 1), N a power of two
SlotOf(k) == intHash64(k) % size

\* the value column a holds at a slot
ColumnValue(arrs, hp, a, slot) ==
    IF dict_struct[a].type = "string" THEN RefBytes(hp, arrs[a][slot]) ELSE arrs[a][slot]

\* the probe of spec section 4.2 against the given cells
Hit(cs, k, clock) == cs[SlotOf(k)].id = k /\ clock < cs[SlotOf(k)].expires_at

\* the ids the call passed to the source
Loaded(l) == IF l.loads = << >> THEN {} ELSE Range(l.loads[1])

\* the ids of the rows the source returned to the call
RowIds(l) == {l.rows[j].id : j \in 1 .. Len(l.rows)}

\* the rows the call itself put into out: the last |ids| of them
CallRows(l) == SubSeq(l.out, Len(l.out) - Len(l.ids) + 1, Len(l.out))

(* C10: for every requested size (0 and sizes above 2^63 included) the
   capacity N computed at construction is a power of two, N >= 1, N >= size,
   the smallest such power of two, and hash64(k) & (N - 1) lies in [0, N) for
   every key k; the constructed cell table and columns have N entries. *)
IsPowerOfTwo(w) == Cardinality({i \in BitIdx : w[i] = 1}) = 1

CapacityIsLeastPowerOfTwo ==
    rup_pc = "done" =>
        /\ IsPowerOfTwo(rup_size)
        /\ rup_size # WordZero
        /\ WordLeq(rup_n, rup_size)
        /\ \A k \in BitIdx : WordLeq(rup_n, Pow2(k)) => WordLeq(rup_size, Pow2(k))
        /\ \A k \in Ids :
              WordLess(WordAnd(ToWord(intHash64(k)), WordDec(rup_size)), rup_size)
        /\ rup_n = ToWord(RequestedSize) =>
              /\ DOMAIN cells = 0 .. ToNat(rup_size) - 1
              /\ \A a \in AttrIdx : DOMAIN arrays[a] = DOMAIN cells

(* C1: a batched lookup started with an empty out leaves exactly |keys|
   entries; entry i is the resident value if keys[i] was a Hit, the value the
   source returned for keys[i] in this call if it was Miss or Stale and the
   source returned a row, and null_value otherwise (key 0 included); equal
   keys receive equal values. *)
OrderPreservation ==
    [][ (CallStep /\ last'.status = "ok"
            /\ (last'.getter = "string" => last'.out0 = << >>)) =>
        LET l == last'
            a == SchemaIdx(l.attribute_name)
            null == NullOf(l.attribute_name)
            Sourced(id) == {l.rows[j].values[a] :
                               j \in {j \in 1 .. Len(l.rows) : l.rows[j].id = id}}
        IN  /\ Len(l.out) = Len(l.ids)
            /\ \A i \in 1 .. Len(l.ids) :
                  LET id == l.ids[i]
                  IN  IF id = 0 THEN l.out[i] = null
                      ELSE IF Hit(cells, id, now)
                      THEN l.out[i] = ColumnValue(arrays, heap, a, SlotOf(id))
                      ELSE IF Sourced(id) # {} THEN l.out[i] \in Sourced(id)
                      ELSE l.out[i] = null
            /\ \A i, j \in 1 .. Len(l.ids) : l.ids[i] = l.ids[j] => l.out[i] = l.out[j]
      ]_vars

\* a batch with a key twice, one key a Hit and another refreshed from the source
OrderPreservationWitness ==
    /\ ReturnedOk
    /\ last.getter = "string" => last.out0 = << >>
    /\ \E i, j, k \in 1 .. Len(last.ids) :
          /\ i # k /\ last.ids[i] = last.ids[k]
          /\ last.ids[i] # 0 /\ Hit(last.pre.cells, last.ids[i], now)
          /\ last.ids[j] \in Loaded(last) \cap RowIds(last)

(* C2: every output position whose key is 0 receives the attribute's
   null_value, whatever the cache holds and whatever rows the source returns
   during the call, and a batch made only of zero keys never invokes the
   source. *)
NullOnZero ==
    ReturnedOk =>
        /\ \A i \in 1 .. Len(last.ids) :
              last.ids[i] = 0 => CallRows(last)[i] = NullOf(last.attribute_name)
        /\ (\A i \in 1 .. Len(last.ids) : last.ids[i] = 0) => last.loads = << >>

(* C3: the batched get_string appends: the rows out_column held before the
   call are still there, unchanged and in order, followed by exactly |keys|
   new rows, whether the optimistic pass completed or the pessimistic pass
   ran. *)
GetStringAppends ==
    (ReturnedOk /\ last.getter = "string" /\ last.api = "multiple") =>
        /\ Len(last.out) = Len(last.out0) + Len(last.ids)
        /\ SubSeq(last.out, 1, Len(last.out0)) = last.out0

(* C4: for get_string over the same keys and the same source data the final
   output is the same whether the optimistic pass completed or the call went
   through the pessimistic pass and a refresh: in both cases it is what the
   completed optimistic pass leaves, the column as passed followed by one row
   per key.  Stated for the batches an optimistic pass can complete on:
   every non-zero key known to the source, no two of them in one slot. *)
OptimisticCanComplete(ids, data) ==
    /\ \A i \in 1 .. Len(ids) : ids[i] # 0 => data[ids[i]].known
    /\ \A i, j \in 1 .. Len(ids) :
          (ids[i] # 0 /\ ids[j] # 0 /\ SlotOf(ids[i]) = SlotOf(ids[j])) => ids[i] = ids[j]

TwoPhaseSameOutput ==
    (ReturnedOk /\ last.getter = "string"
        /\ OptimisticCanComplete(last.ids, source_data)) =>
        last.out = last.out0 \o
            [i \in 1 .. Len(last.ids) |->
                IF last.ids[i] = 0 THEN NullOf(last.attribute_name)
                ELSE source_data[last.ids[i]].values[SchemaIdx(last.attribute_name)]]

(* C5: a getter succeeds exactly when the attribute is declared with the
   getter's kind; declared with another kind it fails with TYPE_MISMATCH,
   not declared it fails with BAD_ARGUMENTS, and a failed getter has not
   invoked the source, taken the lock, or changed cells, columns, string
   buffers, lock state or the random engine. *)
TypeSafety ==
    [][ CallStep =>
        LET l == last'
            declared == Declared(l.attribute_name)
        IN  /\ l.status = "ok" <=> (declared /\ KindOf(l.attribute_name) = l.getter)
            /\ (declared /\ KindOf(l.attribute_name) # l.getter) => l.status = "TYPE_MISMATCH"
            /\ ~declared => l.status = "BAD_ARGUMENTS"
            /\ l.status # "ok" =>
                  /\ l.loads = << >> /\ l.locks = << >>
                  /\ UNCHANGED <<cells, arrays, heap, rw_lock, rnd_engine>>
      ]_vars

\* getUInt64("x", ids, out) on a dictionary that already holds a key, x being uint32
TypeSafetyWitness ==
    /\ Returned
    /\ last.status = "TYPE_MISMATCH"
    /\ last.api = "multiple" /\ last.getter = "uint64" /\ last.attribute_name = "x"
    /\ \E s \in Slots : cells[s].id # 0

\* what the columns hold at a slot: the stored words and the strings behind them
SlotColumns(arrs, hp, slot) ==
    [a \in AttrIdx |-> [stored |-> arrs[a][slot], value |-> ColumnValue(arrs, hp, a, slot)]]

\* key ids[i] of the call was not resident, was asked of the source, and got no row
MissingRow(cs, l, i) ==
    /\ l.ids[i] # 0
    /\ cs[SlotOf(l.ids[i])].id # l.ids[i]
    /\ l.ids[i] \in Loaded(l)
    /\ l.ids[i] \notin RowIds(l)

\* every non-zero key of a call that is not a Hit is asked of the source
MissesAreLoaded ==
    \A i \in 1 .. Len(last'.ids) :
        (last'.ids[i] # 0 /\ ~Hit(cells, last'.ids[i], now)) => last'.ids[i] \in Loaded(last')

(* C6 as stated: when the source returns no row for a requested non-zero key
   k that is not resident, the lookup completes without error, outputs
   null_value at every position of k, leaves cells[slot_of(k)] and the
   columns at that slot unmodified, and the next lookup of k invokes the
   source again. *)
MissingRowLeavesSlot ==
    [][ (CallStep /\ last'.status = "ok") =>
        /\ MissesAreLoaded
        /\ \A i \in 1 .. Len(last'.ids) :
              MissingRow(cells, last', i) =>
                  LET slot == SlotOf(last'.ids[i])
                  IN  /\ CallRows(last')[i] = NullOf(last'.attribute_name)
                      /\ cells'[slot] = cells[slot]
                      /\ SlotColumns(arrays', heap', slot) = SlotColumns(arrays, heap, slot)
                      /\ ~Hit(cells', last'.ids[i], now')
      ]_vars

(* C6, amended: when the source returns no row for a requested non-zero key
   k that is not resident, the lookup completes without error and outputs
   null_value at every position of k; cells[slot_of(k)] and the columns at
   that slot are unmodified unless the same refresh installed a row of
   another key that maps to slot_of(k); either way k is not resident
   afterwards, and a lookup of a key that is not a Hit always invokes the
   source for it. *)
MissingRowLeavesSlotUnlessShared ==
    [][ (CallStep /\ last'.status = "ok") =>
        /\ MissesAreLoaded
        /\ \A i \in 1 .. Len(last'.ids) :
              MissingRow(cells, last', i) =>
                  LET slot == SlotOf(last'.ids[i])
                  IN  /\ CallRows(last')[i] = NullOf(last'.attribute_name)
                      /\ (\A id \in RowIds(last') : SlotOf(id) # slot) =>
                            /\ cells'[slot] = cells[slot]
                            /\ SlotColumns(arrays', heap', slot) =
                                   SlotColumns(arrays, heap, slot)
                      /\ cells'[slot].id # last'.ids[i]
                      /\ ~Hit(cells', last'.ids[i], now')
      ]_vars

\* a key without a row, in a batch whose refresh installed another key in its slot
MissingRowWitness ==
    /\ ReturnedOk
    /\ \E i \in 1 .. Len(last.ids) :
          /\ MissingRow(last.pre.cells, last, i)
          /\ \E id \in RowIds(last) : SlotOf(id) = SlotOf(last.ids[i])
          /\ cells[SlotOf(last.ids[i])] # last.pre.cells[SlotOf(last.ids[i])]

(* C7: once a refresh at instant t has installed key k, every lookup of k
   alone made at an instant in (t, t + min_sec) returns the value the column
   holds for k, which no such call changes, without invoking the source and
   without changing cells, columns, string buffers or the random engine. *)
HitIdempotence ==
    [][ (CallStep /\ last'.status = "ok" /\ last'.ids # << >>) =>
        LET l == last'
            k == l.ids[1]
            slot == SlotOf(k)
            t == hist[slot].installed_at
        IN  (/\ k # 0
             /\ \A i \in 1 .. Len(l.ids) : l.ids[i] = k
             /\ cells[slot].id = k
             /\ t < now /\ now < t + dict_lifetime.min_sec) =>
                /\ l.loads = << >>
                /\ \A i \in 1 .. Len(l.ids) :
                      CallRows(l)[i] =
                          ColumnValue(arrays, heap, SchemaIdx(l.attribute_name), slot)
                /\ UNCHANGED <<cells, arrays, heap, rnd_engine>>
      ]_vars

\* a lookup of a key installed one second earlier
HitIdempotenceWitness ==
    /\ ReturnedOk
    /\ last.ids # << >>
    /\ LET k == last.ids[1]
           slot == SlotOf(k)
           t == last.pre.hist[slot].installed_at
       IN  /\ k # 0
           /\ \A i \in 1 .. Len(last.ids) : last.ids[i] = k
           /\ last.pre.cells[slot].id = k
           /\ t < now /\ now < t + dict_lifetime.min_sec
           /\ last.loads = << >>

\* key ids[i] of the call was evicted from its slot, which now holds another key
Evicted(cs, h, l, i) ==
    LET slot == SlotOf(l.ids[i])
    IN  /\ l.ids[i] # 0
        /\ cs[slot].id # 0 /\ cs[slot].id # l.ids[i]
        /\ h[slot].evicted = l.ids[i]

(* C8 as stated: if k1 and k2 are distinct non-zero keys of one slot, k1 is
   resident and k2 is then refreshed, a subsequent read of k1 yields
   null_value and invokes the source for k1. *)
CollisionEviction ==
    [][ (CallStep /\ last'.status = "ok") =>
        \A i \in 1 .. Len(last'.ids) :
            Evicted(cells, hist, last', i) =>
                /\ last'.ids[i] \in Loaded(last')
                /\ CallRows(last')[i] = NullOf(last'.attribute_name)
      ]_vars

(* C8, amended: if k1 and k2 are distinct non-zero keys of one slot, k1 is
   resident and k2 is then refreshed, a subsequent read of k1 is a Miss: it
   invokes the source for k1 and yields the value the source returns for k1,
   and null_value only if the source returns no row for k1. *)
CollisionEvictionRefetches ==
    [][ (CallStep /\ last'.status = "ok") =>
        \A i \in 1 .. Len(last'.ids) :
            Evicted(cells, hist, last', i) =>
                LET l == last'
                    a == SchemaIdx(l.attribute_name)
                    sourced == {l.rows[j].values[a] :
                                   j \in {j \in 1 .. Len(l.rows) : l.rows[j].id = l.ids[i]}}
                IN  /\ l.ids[i] \in Loaded(l)
                    /\ IF sourced # {} THEN CallRows(l)[i] \in sourced
                       ELSE CallRows(l)[i] = NullOf(l.attribute_name)
      ]_vars

\* a read of an evicted key for which the source has a row
CollisionEvictionWitness ==
    /\ ReturnedOk
    /\ \E i \in 1 .. Len(last.ids) :
          /\ Evicted(last.pre.cells, last.pre.hist, last, i)
          /\ last.ids[i] \in RowIds(last)
          /\ CallRows(last)[i] # NullOf(last.attribute_name)

\* getUInt32("x", [1, 5, 1], out) on the empty dictionary, the source knowing
\* 1 -> (7, "a") and 5 -> (9, "b")
ScenarioCall(cs, l, data) ==
    /\ \A s \in Slots : cs[s].id = 0
    /\ size = 4 /\ SlotOf(1) = SlotOf(5)
    /\ data[1] = Known(7, StrA) /\ data[5] = Known(9, StrB)
    /\ l.status = "ok" /\ l.api = "multiple" /\ l.getter = "uint32"
    /\ l.attribute_name = "x" /\ l.ids = <<1, 5, 1>>

(* C9 as stated: on an empty cache of capacity 4 where keys 1 and 5 share a
   slot and the source knows 1 -> (7, "a") and 5 -> (9, "b"), the call
   get_u32("x", [1, 5, 1]) returns [7, 9, 7], invokes the source twice, and
   leaves key 5 in the shared slot. *)
ScenarioOne ==
    [][ (CallStep /\ ScenarioCall(cells, last', source_data)) =>
        /\ last'.out = <<7, 9, 7>>
        /\ Len(last'.loads) = 2
        /\ cells'[SlotOf(1)].id = 5
      ]_vars

(* C9, amended: in that scenario the call returns [7, 9, 7] and invokes the
   source once, with the two keys 1 and 5 in one request; afterwards the
   shared slot holds the key of the last row the source returned, which is 5
   when the rows arrive in the order 1, 5 and 1 when they arrive in the order
   5, 1. *)
ScenarioOneSingleLoad ==
    [][ (CallStep /\ ScenarioCall(cells, last', source_data)) =>
        LET l == last'
        IN  /\ l.out = <<7, 9, 7>>
            /\ Len(l.loads) = 1
            /\ Len(l.loads[1]) = 2 /\ Range(l.loads[1]) = {1, 5}
            /\ Len(l.rows) = 2
            /\ cells'[SlotOf(1)].id = l.rows[2].id
            /\ l.rows[2].id = 5 <=> l.rows[1].id = 1
      ]_vars

\* the scenario, the source having returned the row of key 5 before that of key 1
ScenarioOneWitness ==
    /\ Returned
    /\ ScenarioCall(last.pre.cells, last, source_data)
    /\ cells[SlotOf(1)].id = 1

\* the cell of a slot holds a key and has not expired
Live(slot) == cells[slot].id # 0 /\ now < cells[slot].expires_at

(* C11: in every state a lookup can observe, states reached after a refresh
   was aborted by an error part-way through a block or a row included, every
   attribute column holds at every slot whose cell has a non-zero key and is
   unexpired the value the source supplied for that key in the row that
   installed it. *)
ColumnsDescribeKey ==
    \A slot \in Slots :
        Live(slot) =>
            \A a \in AttrIdx :
                ColumnValue(arrays, heap, a, slot) = hist[slot].values[a]

\* the rows of the refresh that were installed before it was left
Processed(l) == SubSeq(l.rows, 1, l.processed)

\* the last of the installed rows whose key maps to the slot; 0 if there is none
LastRowAt(l, slot) ==
    LET at == {j \in 1 .. l.processed : SlotOf(l.rows[j].id) = slot}
    IN  IF at = {} THEN 0 ELSE CHOOSE j \in at : \A i \in at : i <= j

(* C15: if during a refresh the stream of the source raises an error, or a
   block's first column is not a UInt64 key column, the error reaches the
   caller of the lookup (SOURCE_FAILURE, TYPE_MISMATCH), the lock is free
   afterwards so that both lock modes can be acquired, every slot written by
   a row processed before the error holds that row's key and values with a
   lifetime within the bounds, and every other slot has the key, expiry and
   column values it had before the refresh. *)
PartialRefresh ==
    [][ (CallStep /\ last'.failed \in {"read", "id_column"}) =>
        LET l == last'
        IN  /\ l.failed = "read" => l.status = "SOURCE_FAILURE"
            /\ l.failed = "id_column" => l.status = "TYPE_MISMATCH"
            /\ rw_lock' = LockFree
            /\ CanReadLock(rw_lock') /\ CanWriteLock(rw_lock')
            /\ \A slot \in Slots :
                  LET j == LastRowAt(l, slot)
                  IN  IF j = 0
                      THEN /\ cells'[slot] = cells[slot]
                           /\ SlotColumns(arrays', heap', slot) =
                                  SlotColumns(arrays, heap, slot)
                      ELSE /\ cells'[slot].id = l.rows[j].id
                           /\ cells'[slot].expires_at \in
                                  {now + d : d \in dict_lifetime.min_sec ..
                                                    dict_lifetime.max_sec}
                           /\ \A a \in AttrIdx :
                                  ColumnValue(arrays', heap', a, slot) =
                                      l.rows[j].values[a]
      ]_vars

\* a stream that failed before the row of a requested key was installed, the
\* slot of that key holding another key
PartialRefreshWitness ==
    /\ Returned
    /\ last.failed \in {"read", "id_column"}
    /\ \E slot \in Slots :
          /\ LastRowAt(last, slot) = 0
          /\ last.pre.cells[slot].id # 0
          /\ \E id \in Loaded(last) :
                SlotOf(id) = slot /\ id # last.pre.cells[slot].id

(* C16: for every lifetime with min_sec <= max_sec, min_sec = 0 included,
   after a refresh for the single key k has returned without error either
   cells[slot_of(k)] holds k with now < expires_at or the source returned no
   row for k. *)
RefreshSufficiency ==
    (ReturnedOk /\ Len(last.loads) = 1 /\ Len(last.loads[1]) = 1) =>
        LET k == last.loads[1][1]
        IN  \/ cells[SlotOf(k)].id = k /\ now < cells[SlotOf(k)].expires_at
            \/ k \notin RowIds(last)

(* C17: the last row a refresh at instant t installs at a slot leaves the
   slot's expires_at at t + d for an integer d with min_sec <= d <= max_sec;
   expires_at of a slot changes only when a row is installed at that slot;
   and a requested key that its cell holds is asked of the source (Stale)
   exactly when now >= expires_at, and otherwise answered from the column. *)
TtlBounds ==
    [][ /\ \A slot \in Slots :
              cells'[slot].expires_at # cells[slot].expires_at =>
                  CallStep /\ LastRowAt(last', slot) # 0
        /\ CallStep =>
              \A slot \in Slots :
                  LastRowAt(last', slot) # 0 =>
                      \E d \in dict_lifetime.min_sec .. dict_lifetime.max_sec :
                          cells'[slot].expires_at = now + d
        /\ (CallStep /\ last'.status = "ok") =>
              \A i \in 1 .. Len(last'.ids) :
                  LET k == last'.ids[i]
                  IN  (k # 0 /\ cells[SlotOf(k)].id = k) =>
                          /\ k \in Loaded(last') <=> now >= cells[SlotOf(k)].expires_at
                          /\ k \notin Loaded(last') =>
                                CallRows(last')[i] =
                                    ColumnValue(arrays, heap,
                                                SchemaIdx(last'.attribute_name), SlotOf(k))
      ]_vars

\* a lookup of a resident key at the very instant its cell expires, refreshed
TtlBoundsWitness ==
    /\ ReturnedOk
    /\ \E i \in 1 .. Len(last.ids) :
          LET k == last.ids[i]
          IN  /\ k # 0
              /\ last.pre.cells[SlotOf(k)].id = k
              /\ now = last.pre.cells[SlotOf(k)].expires_at
              /\ k \in Loaded(last)
              /\ cells[SlotOf(k)].expires_at > now

(* C18: in every state every cell holds either key 0 or the key of the most
   recent row installed at its slot, and that slot is slot_of of the key; so
   no non-zero key is held by two cells, and of two keys that map to one slot
   only the one written last is held. *)
SlotUniqueness ==
    /\ [](\A slot \in Slots : cells[slot].id # 0 => slot = SlotOf(cells[slot].id))
    /\ [](\A s1, s2 \in Slots :
              (cells[s1].id # 0 /\ cells[s1].id = cells[s2].id) => s1 = s2)
    /\ [][ \A slot \in Slots :
              IF CallStep /\ LastRowAt(last', slot) # 0
              THEN cells'[slot].id = last'.rows[LastRowAt(last', slot)].id
              ELSE cells'[slot].id = cells[slot].id
         ]_vars

\* two keys of one slot arrived in one stream and the slot holds the later one
SlotUniquenessWitness ==
    /\ Returned
    /\ \E i, j \in 1 .. last.processed :
          /\ i < j
          /\ last.rows[i].id # last.rows[j].id
          /\ last.rows[i].id # 0
          /\ SlotOf(last.rows[i].id) = SlotOf(last.rows[j].id)
          /\ LastRowAt(last, SlotOf(last.rows[j].id)) = j
          /\ cells[SlotOf(last.rows[j].id)].id = last.rows[j].id

(* C19: a lookup invokes the source's load at most once, and does so exactly
   when some non-zero key of the batch is Miss or Stale at probe time; the
   list of keys passed to the source holds each such key exactly once, no
   zero key and no key that was a Hit. *)
LoadOncePerCall ==
    [][ (CallStep /\ last'.status = "ok") =>
        LET l == last'
            outdated == {l.ids[i] : i \in {i \in 1 .. Len(l.ids) :
                                             l.ids[i] # 0 /\ ~Hit(cells, l.ids[i], now)}}
        IN  /\ Len(l.loads) <= 1
            /\ Len(l.loads) = 1 <=> outdated # {}
            /\ Len(l.loads) = 1 =>
                  /\ Range(l.loads[1]) = outdated
                  /\ Len(l.loads[1]) = Cardinality(outdated)
                  /\ 0 \notin Range(l.loads[1])
      ]_vars

\* getString("s", [1, 1, 1]) on a dictionary whose cell for key 1 has expired
LoadOncePerCallWitness ==
    /\ ReturnedOk
    /\ last.getter = "string" /\ last.ids = <<1, 1, 1>>
    /\ last.pre.cells[SlotOf(1)].id = 1
    /\ last.loads = <<<<1>>>>
    /\ last.out = <<source_data[1].values[2], source_data[1].values[2],
                    source_data[1].values[2]>>

\* the slots of string attributes that point at the buffer at addr
Owners(addr) ==
    {<<a, slot>> \in AttrIdx \X Slots :
        dict_struct[a].type = "string" /\ arrays[a][slot].data = addr}

(* C20: every string buffer the cache allocates for a slot is released
   exactly once, when the slot is overwritten (a write of the empty string,
   which stores the null pointer with length 0, included) or when the cache
   is destroyed: while the cache lives every allocated buffer is owned by
   exactly one slot and no slot points at a released buffer, so that none is
   released twice, and after the cache is destroyed no buffer it allocated
   remains allocated. *)
BuffersReleasedOnce ==
    /\ pc # "destroyed" =>
          \A addr \in HeapAddrs :
              IF heap[addr].alloc THEN Cardinality(Owners(addr)) = 1
              ELSE Owners(addr) = {}
    /\ pc = "destroyed" => \A addr \in HeapAddrs : ~heap[addr].alloc


(***************************************************************************)
(* Threads: who is where while a refresh installs rows.                    *)
(***************************************************************************)
\* t is between taking the write lock of update and giving it up
InInstallPhase(t) == threads[t].pc \in {"read_block", "install"}

\* t is inside a loop that probes cells and copies values out of columns
InReadPhase(t) == threads[t].pc \in {"probe", "probe2"}

\* C12: under any interleaving at most one thread is in the install phase of
\* a refresh, no thread is in a read phase while one is, and the cells, the
\* columns and the random engine change only by a step of that one thread
RefreshExclusion ==
    /\ [](\A t \in Threads :
            InInstallPhase(t) =>
                \A u \in Threads \ {t} : ~InInstallPhase(u) /\ ~InReadPhase(u))
    /\ [][ (cells' # cells \/ arrays' # arrays \/ heap' # heap
            \/ rnd_engine' # rnd_engine) =>
           \E t \in Threads :
              /\ threads[t].pc = "install"
              /\ threads'[t].installed = threads[t].installed + 1
              /\ rw_lock.writer
              /\ \A u \in Threads \ {t} :
                    /\ threads'[u] = threads[u]
                    /\ ~InInstallPhase(u) /\ ~InReadPhase(u)
         ]_vars

\* a thread has installed a row while the other waits for a lock
RefreshExclusionWitness ==
    \E t \in Threads, u \in Threads :
        /\ t # u
        /\ threads[t].pc = "install"
        /\ threads[t].installed >= 1
        /\ threads[u].pc \in {"read_lock", "read_lock2", "write_lock"}


\* the refresh of t has installed some of the rows of its stream, not all
PartlyInstalled(t) ==
    /\ threads[t].installed >= 1
    /\ threads[t].rows # << >> \/ threads[t].stream # << >>

\* C13: update takes the write lock once, holds it from before the first read
\* of the stream until the last block is installed, and so no read phase of
\* another thread runs while a refresh has installed only some of its rows
RefreshAtomicity ==
    /\ [](\A t \in Threads :
            InInstallPhase(t) =>
                /\ rw_lock.writer
                /\ threads[t].holds = "write"
                /\ threads[t].acquired = 1)
    /\ [](\A t \in Threads : threads[t].acquired <= 1)
    /\ [](\A t \in Threads :
            PartlyInstalled(t) =>
                /\ InInstallPhase(t)
                /\ \A u \in Threads \ {t} : ~InReadPhase(u))
    /\ [][ \A t \in Threads :
              (threads[t].holds = "write" /\ threads'[t].holds # "write") =>
                  /\ threads[t].stream = << >> /\ threads[t].rows = << >>
                  /\ threads'[t].pc = "idle"
         ]_vars

\* a refresh of two blocks is between its blocks while the other thread
\* waits to read
RefreshAtomicityWitness ==
    \E t \in Threads, u \in Threads :
        /\ t # u
        /\ threads[t].pc = "read_block"
        /\ PartlyInstalled(t)
        /\ threads[u].pc \in {"read_lock", "read_lock2"}


\* t is inside a getter
InGetter(t) == threads[t].pc # "idle"

\* C14: no thread holds the read lock while it calls the source or asks for
\* the write lock, the reader count is the number of threads in a read
\* scope, and with a fair lock every lookup that was entered returns
LookupsReturn ==
    /\ [](\A t \in Threads :
            threads[t].pc \in {"load", "write_lock"} => threads[t].holds = "none")
    /\ [](rw_lock.readers = Cardinality({t \in Threads : threads[t].holds = "read"}))
    /\ [](\A t \in Threads : threads[t].holds = "read" <=> InReadPhase(t))
    /\ \A t \in Threads : InGetter(t) ~> ~InGetter(t)

\* a thread asks for the write lock while the other is in a read scope
LookupsReturnWitness ==
    \E t \in Threads, u \in Threads :
        /\ t # u
        /\ threads[t].pc = "write_lock"
        /\ threads[u].holds = "read"

====
